---------------------------- MODULE Spec2Model ----------------------------
(***************************************************************************)
(* Model of the cuDNN convolution algorithm picker                         *)
(* (tensorflow/compiler/xla/service/gpu/cudnn_convolution_algorithm_picker.cc). *)
(*                                                                         *)
(* Byte counts and the Winograd total are int64 in the source and range    *)
(* past 2^31, beyond TLC's integers.  They are kept exact as two limbs     *)
(* <<hi, lo>> standing for hi * 2^16 + lo.                                 *)
(***************************************************************************)
EXTENDS Integers, Sequences, FiniteSets, TLC

(***************************************************************************)
(* Bounds of the model.                                                    *)
(***************************************************************************)
\* threads that call PickBestAlgorithm concurrently (SpecLock)
NumThreads == 3
\* device ordinals of the one platform
NumDevices == 2
\* longest candidate list the library enumerates
MaxAlgs == 2
\* elapsed times a valid profile can report: 1..MaxTime
MaxTime == 2
\* scratch requests RunCudnnConvolution makes in one trial
MaxRequests == 2
\* non-fusion computations of the module the pass is run on
MaxComputations == 2
\* instructions of one computation
MaxInstructions == 2

(***************************************************************************)
(* int64 values as two limbs.                                              *)
(***************************************************************************)
LimbBase == 2 ^ 16

I64(n) == <<n \div LimbBase, n % LimbBase>>

I64Add(a, b) ==
  LET lo == a[2] + b[2]
  IN  <<a[1] + b[1] + (lo \div LimbBase), lo % LimbBase>>

\* a * m for a multiplier 0 <= m < 2^15
I64Mul(a, m) ==
  LET lo == a[2] * m
  IN  <<a[1] * m + (lo \div LimbBase), lo % LimbBase>>

I64Less(a, b) == a[1] < b[1] \/ (a[1] = b[1] /\ a[2] < b[2])

I64Zero == <<0, 0>>

\* 1 << k as an int64, for 16 <= k < 47
I64Shl1(k) == <<2 ^ (k - 16), 0>>


(***************************************************************************)
(* Shapes, dimension numbers and instructions.                             *)
(***************************************************************************)
ElementTypes == {"F16", "F32"}

\* ShapeUtil::ByteSizeOfPrimitiveType
ByteSizeOfPrimitiveType(et) == IF et = "F16" THEN 2 ELSE 4

MakeShape(et, dims) == [element_type |-> et, dimensions |-> dims]

\* Shape::dimensions(i), i counted from 0 as in the source
Dimensions(shape, i) == shape.dimensions[i + 1]

RECURSIVE ProductOfDims(_, _)
ProductOfDims(dims, acc) ==
  IF dims = <<>> THEN acc
  ELSE ProductOfDims(Tail(dims), I64Mul(acc, Head(dims)))

\* ShapeUtil::ByteSizeOf of an array shape
ByteSizeOf(shape) ==
  ProductOfDims(shape.dimensions, I64(ByteSizeOfPrimitiveType(shape.element_type)))

\* batch, feature, two spatial dimensions
Dnums2D ==
  [input_batch_dimension |-> 0, input_feature_dimension |-> 1,
   input_spatial_dimensions |-> <<2, 3>>, output_feature_dimension |-> 1]

\* batch, feature, one spatial dimension
Dnums1D ==
  [input_batch_dimension |-> 0, input_feature_dimension |-> 1,
   input_spatial_dimensions |-> <<2>>, output_feature_dimension |-> 1]

kCudnnConvForwardCallTarget == "__cudnn$convForward"
kCudnnConvBackwardInputCallTarget == "__cudnn$convBackwardInput"
kCudnnConvBackwardFilterCallTarget == "__cudnn$convBackwardFilter"

CallTargets ==
  {kCudnnConvForwardCallTarget, kCudnnConvBackwardInputCallTarget,
   kCudnnConvBackwardFilterCallTarget}

\* 4 elements: every operand fits
SmallDims == <<1, 1, 2, 2>>
\* 2 elements: operand 1
FilterDims == <<1, 1, 1, 2>>
\* 1 element: the result of the calls of Instructions, so that operand 0,
\* operand 1 and the result differ in byte size
ResultDims == <<1, 1, 1, 1>>
\* 2^29 elements: fits in 4 GiB, Winograd total reaches 2^31
WideDims == <<1, 512, 1024, 1024>>
\* 2^33 elements: more than 4 GiB
HugeDims == <<16, 512, 1024, 1024>>

\* element types of operand 0, operand 1 and the result
ElementTypeTriples ==
  {<<"F16", "F16", "F16">>, <<"F32", "F32", "F32">>,
   <<"F16", "F32", "F16">>, <<"F32", "F32", "F16">>}

MakeInstruction(target, et, dims0, dimsr, dnums, crash) ==
  [custom_call_target |-> target,
   operand0 |-> MakeShape(et[1], dims0),
   operand1 |-> MakeShape(et[2], IF Len(dims0) = 3 THEN <<1, 1, 2>> ELSE FilterDims),
   result |-> MakeShape(et[3], dimsr),
   window |-> "window",
   dnums |-> dnums,
   xla_gpu_crash_on_verification_failures |-> crash]

\* the custom calls the pass is run on: every call target with every triple of
\* element types; the larger operands on F32 calls, the crash option on F16 calls
Instructions ==
  {MakeInstruction(target, et, SmallDims, ResultDims, Dnums2D, FALSE) :
     target \in CallTargets, et \in ElementTypeTriples} \cup
  {MakeInstruction(target, <<"F32", "F32", "F32">>, dims0, ResultDims, Dnums2D, FALSE) :
     target \in CallTargets, dims0 \in {WideDims, HugeDims}} \cup
  {MakeInstruction(target, <<"F16", "F16", "F16">>, SmallDims, ResultDims, Dnums2D, TRUE) :
     target \in CallTargets}

(***************************************************************************)
(* Threads and devices.                                                    *)
(***************************************************************************)
Threads == 1 .. NumThreads

\* the thread whose call is modelled statement by statement
Main == 1

\* (platform, device ordinal)
Devices == {<<"cuda", ord>> : ord \in 0 .. NumDevices - 1}

NoThread == 0

VARIABLES
  tpc,        \* tpc[t]: where thread t is in its call
  dev,        \* dev[t]: (platform, ordinal) of the picker's stream_exec_
  mu,         \* LockGpu's static mutex mu: its holder or NoThread
  mutexes,    \* LockGpu's static map: device -> holder of its mutex
  instr,      \* the custom call RunOnInstruction is run on
  stream,     \* se::Stream stream: "none", "ok" or "failed" (after Init)
  memory,     \* device buffers allocated and not yet deallocated: <<trial, k>>,
              \* the k-th buffer of the trial's allocator, trial 0 for the operands
  input_output_allocator,  \* <<>> or <<the operand ScratchAllocator>>
  scratch_allocator,       \* <<>> or <<the trial's ScratchAllocator>>
  result_buf, \* <<>> or <<position of *result_buf among input_buf,
              \* filter_buf, output_buf>>
  version,    \* <<>> or <<result of GetVersion()>>
  use_winograd_nonfused,   \* <<>> or <<the flag>>
  algorithms, \* <<>> or <<the list GetAlgorithms returned>>
  with_winograd_nonfused,  \* <<>> or <<the flag GetAlgorithms was called with>>
  next_alg,   \* position of the loop in algorithms (from 1)
  requests,   \* scratch requests of the running trial: <<[byte_size, ok]>>
  run,        \* <<>> or <<[launch_ok, profile_result]>> of the running trial
  best_result,             \* se::dnn::ProfileResult best_result
  best_result_bytes_used,
  comparator, \* <<>> or <<[reference |-> trial the comparator was created on]>>
  first_algorithm,         \* <<>> or <<AlgorithmDesc>>
  trials,     \* history: one record per finished trial
  pick_result,             \* what PickBestAlgorithm returned
  computation,             \* instructions of instr->parent()
  replaced_by,             \* <<>> or <<the instruction instr was replaced by>>
  roi_result, \* what RunOnInstruction returned
  hlo_module, \* module->MakeNonfusionComputations(): a list of computations,
              \* each a list of instructions
  comp_i,     \* position of Run's loop in hlo_module (from 1)
  run_changed,             \* Run's local changed
  convs,      \* RunOnComputation's convs: positions in the computation
  conv_i,     \* position of RunOnComputation's second loop in convs (from 1)
  changed,    \* RunOnComputation's local changed
  processed,  \* history: one record per RunOnInstruction call of the pass
  roc_results,             \* history: what each RunOnComputation call returned
  run_result  \* what Run returned

lockVars == <<tpc, dev, mu, mutexes>>

deviceVars == <<stream, memory, input_output_allocator, scratch_allocator>>

algVars == <<version, use_winograd_nonfused, algorithms, with_winograd_nonfused>>

enumVars == <<result_buf, algVars>>

loopVars ==
  <<next_alg, requests, run, best_result, best_result_bytes_used, comparator,
    first_algorithm, trials>>

passVars ==
  <<hlo_module, comp_i, run_changed, convs, conv_i, changed, processed,
    roc_results, run_result>>

rewriteVars == <<computation, replaced_by, roi_result, passVars>>

callVars == <<instr, deviceVars, enumVars, loopVars, pick_result, rewriteVars>>

vars == <<lockVars, callVars>>

(***************************************************************************)
(* LockGpu (lines 147-162).                                                *)
(***************************************************************************)
\* a map insertion that replaces the mutex of a key already present
EmplaceOverwriting(map, key) ==
  [k \in DOMAIN map \cup {key} |-> IF k = key THEN NoThread ELSE map[k]]

\* std::map::emplace: inserts an unlocked mutex unless the key is present
Emplace(map, key) ==
  IF key \in DOMAIN map THEN map
  ELSE [k \in DOMAIN map \cup {key} |-> IF k = key THEN NoThread ELSE map[k]]

\* tensorflow::mutex_lock global_lock(mu);
LockGpuGlobal(t) ==
  /\ tpc[t] = "lock_global"
  /\ mu = NoThread
  /\ mu' = t
  /\ tpc' = [tpc EXCEPT ![t] = "lock_emplace"]
  /\ UNCHANGED <<dev, mutexes, callVars>>

\* auto it = mutexes->emplace(...).first;
LockGpuEmplace(t) ==
  /\ tpc[t] = "lock_emplace"
  /\ mutexes' = Emplace(mutexes, dev[t])
  /\ tpc' = [tpc EXCEPT ![t] = "lock_device"]
  /\ UNCHANGED <<dev, mu, callVars>>

\* return tensorflow::mutex_lock{it->second};  blocks while the mutex is held
LockGpuDevice(t) ==
  /\ tpc[t] = "lock_device"
  /\ mutexes[dev[t]] = NoThread
  /\ mutexes' = [mutexes EXCEPT ![dev[t]] = t]
  /\ tpc' = [tpc EXCEPT ![t] = "lock_return"]
  /\ UNCHANGED <<dev, mu, callVars>>

\* ~global_lock as LockGpu returns
LockGpuReturn(t) ==
  /\ tpc[t] = "lock_return"
  /\ mu' = NoThread
  /\ tpc' = [tpc EXCEPT ![t] = "locked"]
  /\ UNCHANGED <<dev, mutexes, callVars>>

\* a lock that is not released when the call returns
UnlockNothing(map, t) == map

\* ~lock as PickBestAlgorithm returns
Unlock(map, t) ==
  [k \in DOMAIN map |-> IF map[k] = t THEN NoThread ELSE map[k]]

(***************************************************************************)
(* ScratchAllocator (lines 37-76).                                         *)
(***************************************************************************)
\* a freshly constructed ScratchAllocator
NewScratchAllocator ==
  [allocated_buffers_ |-> <<>>, total_allocated_bytes_ |-> I64Zero]

\* return 1LL << 32;
GetMemoryLimitInBytes == I64Shl1(32)

TotalAllocatedBytes(alloc) == alloc.total_allocated_bytes_

\* an allocator that passes every request on to the device allocator, the
\* limit not tested
AllocateBytesUnlimited(alloc, byte_size, granted, id) ==
  IF ~granted
  THEN [status |-> "ALLOCATE_FAILED", allocator |-> alloc, asked |-> TRUE]
  ELSE [status |-> "OK",
        allocator |->
          [allocated_buffers_ |->
             Append(alloc.allocated_buffers_, [id |-> id, size |-> byte_size]),
           total_allocated_bytes_ |->
             I64Add(alloc.total_allocated_bytes_, byte_size)],
        asked |-> TRUE]

\* an allocator that adds the request to its total before the device
\* allocator has answered
AllocateBytesCountingRefused(alloc, byte_size, granted, id) ==
  IF I64Less(GetMemoryLimitInBytes, byte_size)
  THEN [status |-> "RESOURCE_EXHAUSTED", allocator |-> alloc, asked |-> FALSE]
  ELSE IF ~granted
  THEN [status |-> "ALLOCATE_FAILED",
        allocator |->
          [alloc EXCEPT !.total_allocated_bytes_ =
             I64Add(alloc.total_allocated_bytes_, byte_size)],
        asked |-> TRUE]
  ELSE [status |-> "OK",
        allocator |->
          [allocated_buffers_ |->
             Append(alloc.allocated_buffers_, [id |-> id, size |-> byte_size]),
           total_allocated_bytes_ |->
             I64Add(alloc.total_allocated_bytes_, byte_size)],
        asked |-> TRUE]

\* AllocateBytes(stream, byte_size) on alloc.  granted: whether
\* memory_allocator_->Allocate(device_ordinal_, byte_size, false) succeeds;
\* id: the buffer it hands out.  asked: whether Allocate was called at all.
AllocateBytes(alloc, byte_size, granted, id) ==
  IF I64Less(GetMemoryLimitInBytes, byte_size)
  THEN [status |-> "RESOURCE_EXHAUSTED", allocator |-> alloc, asked |-> FALSE]
  ELSE IF ~granted
  THEN [status |-> "ALLOCATE_FAILED", allocator |-> alloc, asked |-> TRUE]
  ELSE [status |-> "OK",
        allocator |->
          [allocated_buffers_ |->
             Append(alloc.allocated_buffers_, [id |-> id, size |-> byte_size]),
           total_allocated_bytes_ |->
             I64Add(alloc.total_allocated_bytes_, byte_size)],
        asked |-> TRUE]

\* buffers an allocator owns
OwnedBuffers(alloc) ==
  {alloc.allocated_buffers_[i].id : i \in 1 .. Len(alloc.allocated_buffers_)}

\* an allocator whose buffers are plain DeviceMemoryBase and outlive it
DestroyAllocatorLeaking(mem, opt_alloc) == mem

\* ~ScratchAllocator: every OwningDeviceMemory of allocated_buffers_ is freed
DestroyAllocator(mem, opt_alloc) ==
  IF opt_alloc = <<>> THEN mem ELSE mem \ OwnedBuffers(opt_alloc[1])

(***************************************************************************)
(* ShouldIncludeWinogradNonfusedAlgo (lines 81-106).                       *)
(***************************************************************************)
\* MathUtil::CeilOfRatio for non-negative operands
CeilOfRatio(n, d) == (n + d - 1) \div d

Max(a, b) == IF a < b THEN b ELSE a

SizeofFloat == 4

\* results of stream_exec->AsDnn()->GetVersion()
Versions ==
  {[ok |-> FALSE, major_version |-> 0]} \cup
  {[ok |-> TRUE, major_version |-> m] : m \in 6 .. 7}

\* the size test with the threshold itself let through
ShouldIncludeWinogradNonfusedAlgoInclusive(input_shape, output_shape, dnums, ver) ==
  IF ver.ok /\ ver.major_version >= 7 THEN TRUE
  ELSE
    LET batch == Dimensions(input_shape, dnums.input_batch_dimension)
        in_depths == Dimensions(input_shape, dnums.input_feature_dimension)
        in_rows == Dimensions(input_shape, dnums.input_spatial_dimensions[1])
        in_cols ==
          IF Len(dnums.input_spatial_dimensions) = 1 THEN 1
          ELSE Dimensions(input_shape, dnums.input_spatial_dimensions[2])
        out_depths == Dimensions(output_shape, dnums.output_feature_dimension)
        total_size ==
          I64Mul(I64Mul(I64Mul(I64Mul(I64(CeilOfRatio(batch, 16)),
                                      Max(in_depths, out_depths)),
                               in_cols),
                        in_rows),
                 SizeofFloat)
        threshold == I64Shl1(31)
    IN  ~I64Less(threshold, total_size)

\* a failed version query taken for a library that needs no size test
ShouldIncludeWinogradNonfusedAlgoUnlessOld(input_shape, output_shape, dnums, ver) ==
  IF ~ver.ok \/ ver.major_version >= 7 THEN TRUE
  ELSE
    LET batch == Dimensions(input_shape, dnums.input_batch_dimension)
        in_depths == Dimensions(input_shape, dnums.input_feature_dimension)
        in_rows == Dimensions(input_shape, dnums.input_spatial_dimensions[1])
        in_cols ==
          IF Len(dnums.input_spatial_dimensions) = 1 THEN 1
          ELSE Dimensions(input_shape, dnums.input_spatial_dimensions[2])
        out_depths == Dimensions(output_shape, dnums.output_feature_dimension)
        total_size ==
          I64Mul(I64Mul(I64Mul(I64Mul(I64(CeilOfRatio(batch, 16)),
                                      Max(in_depths, out_depths)),
                               in_cols),
                        in_rows),
                 SizeofFloat)
        threshold == I64Shl1(31)
    IN  I64Less(total_size, threshold)

ShouldIncludeWinogradNonfusedAlgo(input_shape, output_shape, dnums, ver) ==
  IF ver.ok /\ ver.major_version >= 7 THEN TRUE
  ELSE
    LET batch == Dimensions(input_shape, dnums.input_batch_dimension)
        in_depths == Dimensions(input_shape, dnums.input_feature_dimension)
        in_rows == Dimensions(input_shape, dnums.input_spatial_dimensions[1])
        in_cols ==
          IF Len(dnums.input_spatial_dimensions) = 1 THEN 1
          ELSE Dimensions(input_shape, dnums.input_spatial_dimensions[2])
        out_depths == Dimensions(output_shape, dnums.output_feature_dimension)
        total_size ==
          I64Mul(I64Mul(I64Mul(I64Mul(I64(CeilOfRatio(batch, 16)),
                                      Max(in_depths, out_depths)),
                               in_cols),
                        in_rows),
                 SizeofFloat)
        threshold == I64Shl1(31)
    IN  I64Less(total_size, threshold)

(***************************************************************************)
(* GetAlgorithms (lines 108-128).                                          *)
(***************************************************************************)
AlgorithmDesc(id, tc) == [algo_id |-> id, tensor_ops_enabled |-> tc]

\* the id of the Winograd non-fused algorithm in the model's library
kWinogradNonfused == 1

\* the first n algorithms of the library, in its order:
\* (0), (1), (0)+TC, (1)+TC, (2), (3), (2)+TC, ...
LibraryAlgorithms(n) ==
  [i \in 1 .. n |->
     AlgorithmDesc(((i - 1) % 2) + (2 * ((i - 1) \div 4)),
                   (((i - 1) \div 2) % 2) = 1)]

\* GetConvolve*Algorithms(with_winograd_nonfused, &algorithms) on a library
\* that supports lib
GetAlgorithms(kind, with_winograd, lib) ==
  SelectSeq(lib, LAMBDA a : with_winograd \/ a.algo_id # kWinogradNonfused)

(***************************************************************************)
(* se::dnn::ProfileResult.                                                 *)
(***************************************************************************)
\* std::numeric_limits<float>::max(), the elapsed time of an unset profile
FloatMax == MaxTime + 1

DefaultProfileResult == [algorithm |-> <<>>, elapsed_time_in_ms |-> FloatMax]

IsValid(p) == p.algorithm # <<>> /\ p.elapsed_time_in_ms # FloatMax

\* profiles RunCudnnConvolution can hand back for alg
ProfileResults(alg) ==
  {DefaultProfileResult} \cup
  {[algorithm |-> <<alg>>, elapsed_time_in_ms |-> ms] : ms \in 1 .. MaxTime}

(***************************************************************************)
(* RunOnInstruction's choice of arguments (lines 372-396) and              *)
(* PickBestAlgorithm's choice of result buffer (lines 264-273).            *)
(***************************************************************************)
PickArgs(i) ==
  CASE i.custom_call_target = kCudnnConvForwardCallTarget ->
         [kind |-> "kForward", input_shape |-> i.operand0,
          filter_shape |-> i.operand1, output_shape |-> i.result]
    [] i.custom_call_target = kCudnnConvBackwardInputCallTarget ->
         [kind |-> "kBackwardInput", input_shape |-> i.result,
          filter_shape |-> i.operand1, output_shape |-> i.operand0]
    [] i.custom_call_target = kCudnnConvBackwardFilterCallTarget ->
         [kind |-> "kBackwardFilter", input_shape |-> i.operand0,
          filter_shape |-> i.result, output_shape |-> i.operand1]

\* a result buffer that is output_buf for every kind
ResultBufAlwaysOutput(kind) == 3

\* position of the result buffer among input_buf, filter_buf, output_buf
ResultBuf(kind) ==
  CASE kind = "kBackwardFilter" -> 2
    [] kind = "kBackwardInput" -> 1
    [] kind = "kForward" -> 3

\* const bool cross_check_enabled = input_shape.element_type() == xla::F16;
CrossCheckEnabled(args) == args.input_shape.element_type = "F16"

(***************************************************************************)
(* PickBestAlgorithm (lines 177-366), statement by statement, run by Main. *)
(***************************************************************************)
Goto(t, label) == tpc' = [tpc EXCEPT ![t] = label]

NoResult == [status |-> "none", value |-> <<>>]

Error(code) == [status |-> code, value |-> <<>>]

Args == PickArgs(instr)

\* RunOnInstruction is entered and calls PickBestAlgorithm (lines 368-396)
RunOnInstructionCall ==
  /\ tpc[Main] = "idle"
  /\ Goto(Main, "pick_entry")
  /\ UNCHANGED <<dev, mu, mutexes, callVars>>

\* CHECK_EQ on the element types (lines 182-183)
ElementTypesAgree(args) ==
  /\ args.input_shape.element_type = args.filter_shape.element_type
  /\ args.input_shape.element_type = args.output_shape.element_type

PickEntry ==
  /\ tpc[Main] = "pick_entry"
  /\ Goto(Main, IF ElementTypesAgree(Args) THEN "lock_global" ELSE "fatal")
  /\ UNCHANGED <<dev, mu, mutexes, callVars>>

\* se::Stream stream{stream_exec_}; stream.Init(); the allocator is resolved;
\* ScratchAllocator input_output_allocator(...)  (lines 195-216)
PickStream ==
  /\ tpc[Main] = "locked"
  /\ \E init_ok \in BOOLEAN : stream' = IF init_ok THEN "ok" ELSE "failed"
  /\ input_output_allocator' = <<NewScratchAllocator>>
  /\ Goto(Main, "alloc_operands")
  /\ UNCHANGED <<dev, mu, mutexes, instr, memory, scratch_allocator,
                 enumVars, loopVars, pick_result, rewriteVars>>

\* a return statement of PickBestAlgorithm: the locals are destroyed in reverse
\* order of construction, the allocators and the stream first, the lock last
PickReturn(result) ==
  /\ pick_result' = result
  /\ memory' = DestroyAllocator(DestroyAllocator(memory, scratch_allocator),
                                input_output_allocator)
  /\ scratch_allocator' = <<>>
  /\ input_output_allocator' = <<>>
  /\ stream' = "none"
  /\ mutexes' = Unlock(mutexes, Main)
  /\ Goto(Main, "pick_returned")

\* the three TF_ASSIGN_OR_RETURN(..., input_output_allocator.AllocateBytes(...))
\* (lines 217-225), one per step: input, filter, output
PickAllocateOperand ==
  /\ tpc[Main] = "alloc_operands"
  /\ LET n == Len(input_output_allocator[1].allocated_buffers_)
         shape == <<Args.input_shape, Args.filter_shape, Args.output_shape>>[n + 1]
     IN  \E granted \in BOOLEAN :
           LET r == AllocateBytes(input_output_allocator[1], ByteSizeOf(shape),
                                  granted, <<0, n + 1>>)
           IN  IF r.status = "OK"
               THEN /\ input_output_allocator' = <<r.allocator>>
                    /\ memory' = memory \cup {<<0, n + 1>>}
                    /\ Goto(Main, IF n = 2 THEN "init_buffers" ELSE "alloc_operands")
                    /\ UNCHANGED <<mutexes, stream, scratch_allocator, pick_result>>
               ELSE PickReturn(Error(r.status))
  /\ UNCHANGED <<dev, mu, instr, enumVars, loopVars, rewriteVars>>

\* the buffers are filled and TF_RETURN_IF_ERROR(stream.BlockHostUntilDone())
\* (lines 227-262); a stream whose Init failed is not ok and cannot be waited on;
\* then result_buf is chosen (lines 264-273)
PickInitBuffers ==
  /\ tpc[Main] = "init_buffers"
  /\ \E done \in BOOLEAN :
       IF stream = "ok" /\ done
       THEN /\ result_buf' = <<ResultBuf(Args.kind)>>
            /\ Goto(Main, "winograd")
            /\ UNCHANGED <<mutexes, deviceVars, pick_result>>
       ELSE /\ PickReturn(Error("STREAM_ERROR"))
            /\ UNCHANGED result_buf
  /\ UNCHANGED <<dev, mu, instr, algVars, loopVars, rewriteVars>>

\* const bool use_winograd_nonfused = ShouldIncludeWinogradNonfusedAlgo(...)
\* (lines 275-276)
PickWinograd ==
  /\ tpc[Main] = "winograd"
  /\ \E v \in Versions :
       /\ version' = <<v>>
       /\ use_winograd_nonfused' =
            <<ShouldIncludeWinogradNonfusedAlgo(Args.input_shape, Args.output_shape,
                                                instr.dnums, v)>>
  /\ Goto(Main, "get_algorithms")
  /\ UNCHANGED <<dev, mu, mutexes, instr, deviceVars, result_buf, algorithms,
                 with_winograd_nonfused, loopVars, pick_result, rewriteVars>>

\* GetAlgorithms(kind, use_winograd_nonfused, stream_exec_) (lines 285-286);
\* its CHECK fails when the library cannot enumerate
PickGetAlgorithms ==
  /\ tpc[Main] = "get_algorithms"
  /\ \E enumerated \in BOOLEAN, n \in 0 .. MaxAlgs :
       IF enumerated
       THEN /\ algorithms' = GetAlgorithms(Args.kind, use_winograd_nonfused[1],
                                           LibraryAlgorithms(n))
            /\ with_winograd_nonfused' = use_winograd_nonfused
            /\ Goto(Main, "loop")
       ELSE /\ Goto(Main, "fatal")
            /\ UNCHANGED <<algorithms, with_winograd_nonfused>>
  /\ UNCHANGED <<dev, mu, mutexes, instr, deviceVars, result_buf, version,
                 use_winograd_nonfused, loopVars, pick_result, rewriteVars>>

(***************************************************************************)
(* The loop over the candidates (lines 285-351).                           *)
(***************************************************************************)
\* byte sizes RunCudnnConvolution asks its scratch allocator for:
\* 3 GiB and 4 GiB + 1
ScratchSizes == {I64Mul(I64Shl1(30), 3), I64Add(I64Shl1(32), I64(1))}

\* outcomes of F16BufferComparator::CompareEqual
CompareResults == {"equal", "unequal", "error"}

\* ScratchAllocator scratch_allocator(device_ordinal, allocator);
\* se::dnn::ProfileResult profile_result;  (lines 287-288)
TrialBegin ==
  /\ tpc[Main] = "loop"
  /\ next_alg <= Len(algorithms)
  /\ scratch_allocator' = <<NewScratchAllocator>>
  /\ requests' = <<>>
  /\ run' = <<>>
  /\ Goto(Main, "run_conv")
  /\ UNCHANGED <<dev, mu, mutexes, instr, stream, memory,
                 input_output_allocator, enumVars, next_alg, best_result,
                 best_result_bytes_used, comparator, first_algorithm, trials,
                 pick_result, rewriteVars>>

\* RunCudnnConvolution asks scratch_allocator for scratch memory; a refused
\* request makes the convolution fail
TrialAllocate ==
  /\ tpc[Main] = "run_conv"
  /\ Len(requests) < MaxRequests
  /\ \E byte_size \in ScratchSizes, granted \in BOOLEAN :
       LET id == <<next_alg, Len(scratch_allocator[1].allocated_buffers_) + 1>>
           r == AllocateBytes(scratch_allocator[1], byte_size, granted, id)
       IN  /\ scratch_allocator' = <<r.allocator>>
           /\ requests' = Append(requests, [byte_size |-> byte_size,
                                            status |-> r.status, asked |-> r.asked])
           /\ IF r.status = "OK"
              THEN /\ memory' = memory \cup {id}
                   /\ UNCHANGED <<run, tpc>>
              ELSE /\ run' = <<[launch_ok |-> FALSE,
                                profile_result |-> DefaultProfileResult]>>
                   /\ Goto(Main, "trial_check")
                   /\ UNCHANGED memory
  /\ UNCHANGED <<dev, mu, mutexes, instr, stream, input_output_allocator, enumVars,
                 next_alg, best_result, best_result_bytes_used, comparator,
                 first_algorithm, trials, pick_result, rewriteVars>>

\* RunCudnnConvolution(...).ok() and the profile it filled in (lines 292-297)
TrialLaunch ==
  /\ tpc[Main] = "run_conv"
  /\ \E ok \in BOOLEAN, p \in ProfileResults(algorithms[next_alg]) :
       run' = <<[launch_ok |-> ok, profile_result |-> p]>>
  /\ Goto(Main, "trial_check")
  /\ UNCHANGED <<dev, mu, mutexes, instr, deviceVars, enumVars, next_alg, requests,
                 best_result, best_result_bytes_used, comparator, first_algorithm,
                 trials, pick_result, rewriteVars>>

\* if (launch_ok && profile_result.is_valid())  (line 299)
TrialSucceeded(r) == r.launch_ok /\ IsValid(r.profile_result)

\* cross checking that takes every successful trial as the new reference
CrossCheckBranchRecreating(has_comparator, cross_check_enabled) ==
  IF cross_check_enabled THEN "create"
  ELSE IF has_comparator THEN "compare"
  ELSE "none"

\* which arm of lines 305-335 a successful trial takes
CrossCheckBranch(has_comparator, cross_check_enabled) ==
  IF has_comparator THEN "compare"
  ELSE IF cross_check_enabled THEN "create"
  ELSE "none"

\* a verification that lets a comparison that could not be made pass
VerificationFailedOnMismatchOnly(branch, cmp, created) ==
  \/ branch = "compare" /\ cmp = "unequal"
  \/ branch = "create" /\ ~created

\* whether the arm reaches one of the CHECK(!crash_on_checking_failure):
\* the comparison errs or reports inequality, or the comparator is not created
VerificationFailed(branch, cmp, created) ==
  \/ branch = "compare" /\ cmp # "equal"
  \/ branch = "create" /\ ~created

\* a best-so-far update that also replaces the best on an equal time
UpdateBestOnTie(best, best_bytes, profile, scratch_bytes_used) ==
  IF profile.elapsed_time_in_ms <= best.elapsed_time_in_ms
  THEN [best_result |-> profile, best_result_bytes_used |-> scratch_bytes_used]
  ELSE [best_result |-> best, best_result_bytes_used |-> best_bytes]

\* a best-so-far update that records the scratch bytes of every successful trial
UpdateBestBytesOfLast(best, best_bytes, profile, scratch_bytes_used) ==
  IF profile.elapsed_time_in_ms < best.elapsed_time_in_ms
  THEN [best_result |-> profile, best_result_bytes_used |-> scratch_bytes_used]
  ELSE [best_result |-> best, best_result_bytes_used |-> scratch_bytes_used]

\* lines 343-347
UpdateBest(best, best_bytes, profile, scratch_bytes_used) ==
  IF profile.elapsed_time_in_ms < best.elapsed_time_in_ms
  THEN [best_result |-> profile, best_result_bytes_used |-> scratch_bytes_used]
  ELSE [best_result |-> best, best_result_bytes_used |-> best_bytes]

\* history of a trial that succeeded: its algorithm, time and scratch bytes,
\* the outcome of its comparison ("none" when not compared), the trial it was
\* compared against, and whether the comparator was created on it
TrialRecord(alg, r, used, compare, against, reference) ==
  [alg |-> alg, succeeded |-> TRUE,
   elapsed_time_in_ms |-> r.profile_result.elapsed_time_in_ms,
   scratch_bytes |-> used, compare |-> compare, against |-> against,
   reference |-> reference]

\* history of a trial that failed to launch or gave an invalid profile
FailedTrialRecord(alg) ==
  [alg |-> alg, succeeded |-> FALSE, elapsed_time_in_ms |-> FloatMax,
   scratch_bytes |-> I64Zero, compare |-> "none", against |-> 0,
   reference |-> FALSE]

\* a scratch allocator declared outside the loop: it lives on, with its
\* buffers, into the next trial
EndTrialKeepingAllocator ==
  /\ UNCHANGED <<memory, scratch_allocator>>
  /\ next_alg' = next_alg + 1
  /\ requests' = <<>>
  /\ run' = <<>>
  /\ Goto(Main, "loop")

\* the scratch allocator goes out of scope and the loop moves on (line 351)
EndTrial ==
  /\ memory' = DestroyAllocator(memory, scratch_allocator)
  /\ scratch_allocator' = <<>>
  /\ next_alg' = next_alg + 1
  /\ requests' = <<>>
  /\ run' = <<>>
  /\ Goto(Main, "loop")

\* a loop that goes on to the next candidate after a failed verification,
\* the trial left out of the best-so-far update
TrialPathSkippingUnverified(succeeded, verification_failed, crash) ==
  IF ~succeeded THEN "next"
  ELSE IF verification_failed THEN (IF crash THEN "fatal" ELSE "next")
  ELSE "update"

\* the way of a trial through lines 299-350: "next" is the else arm at 348,
\* "fatal" a failing CHECK(!crash_on_checking_failure) at 313, 321 or 333,
\* "update" the best-so-far update at 336-347
TrialPath(succeeded, verification_failed, crash) ==
  IF ~succeeded THEN "next"
  ELSE IF verification_failed /\ crash THEN "fatal"
  ELSE "update"

\* lines 299-351 for the trial that just ran
TrialFinish ==
  /\ tpc[Main] = "trial_check"
  /\ LET alg == algorithms[next_alg]
         r == run[1]
         used == TotalAllocatedBytes(scratch_allocator[1])
         crash == instr.xla_gpu_crash_on_verification_failures
         branch == CrossCheckBranch(comparator # <<>>, CrossCheckEnabled(Args))
     IN  \E cmp \in CompareResults, created \in BOOLEAN :
           LET rec == TrialRecord(alg, r, used,
                        IF branch = "compare" THEN cmp ELSE "none",
                        IF branch = "compare" THEN comparator[1].reference ELSE 0,
                        branch = "create" /\ created)
               best == UpdateBest(best_result, best_result_bytes_used,
                                  r.profile_result, used)
               path == TrialPath(TrialSucceeded(r),
                                 VerificationFailed(branch, cmp, created), crash)
           IN  CASE path = "fatal" ->
                      /\ trials' = Append(trials, rec)
                      /\ Goto(Main, "fatal")
                      /\ UNCHANGED <<memory, scratch_allocator, next_alg, requests,
                                     run, best_result, best_result_bytes_used,
                                     comparator, first_algorithm>>
                 [] path = "update" ->
                      /\ trials' = Append(trials, rec)
                      /\ IF branch = "create" /\ created
                         THEN /\ comparator' = <<[reference |-> next_alg]>>
                              /\ first_algorithm' = <<alg>>
                         ELSE UNCHANGED <<comparator, first_algorithm>>
                      /\ best_result' = best.best_result
                      /\ best_result_bytes_used' = best.best_result_bytes_used
                      /\ EndTrial
                 [] path = "next" ->
                      /\ trials' = Append(trials, FailedTrialRecord(alg))
                      /\ EndTrial
                      /\ UNCHANGED <<best_result, best_result_bytes_used, comparator,
                                     first_algorithm>>
  /\ UNCHANGED <<dev, mu, mutexes, instr, stream, input_output_allocator,
                 enumVars, pick_result, rewriteVars>>

\* a return that skips the validity test and hands back the algorithm of
\* best_result, the default algorithm when no trial set it
BestOrDefault(best, best_bytes) ==
  LET alg == IF best.algorithm = <<>> THEN AlgorithmDesc(0, FALSE)
             ELSE best.algorithm[1]
  IN  [status |-> "OK",
       value |-> <<[algorithm |-> alg.algo_id,
                    tensor_ops_enabled |-> alg.tensor_ops_enabled,
                    scratch_bytes |-> best_bytes]>>]

\* what PickBestAlgorithm returns after the loop (lines 352-366)
BestOrError(best, best_bytes) ==
  IF IsValid(best)
  THEN [status |-> "OK",
        value |-> <<[algorithm |-> best.algorithm[1].algo_id,
                     tensor_ops_enabled |-> best.algorithm[1].tensor_ops_enabled,
                     scratch_bytes |-> best_bytes]>>]
  ELSE Error("ALL_ALGORITHMS_FAILED")

\* lines 352-366
PickFinish ==
  /\ tpc[Main] = "loop"
  /\ next_alg > Len(algorithms)
  /\ PickReturn(BestOrError(best_result, best_result_bytes_used))
  /\ UNCHANGED <<dev, mu, instr, enumVars, loopVars, rewriteVars>>

(***************************************************************************)
(* RunOnInstruction after the picker has returned (lines 398-447).         *)
(***************************************************************************)
NoChange == [status |-> "none", changed |-> <<>>]

\* Shape of u8[n]
U8Shape(n) == MakeShape("U8", <<n>>)

\* a new custom call that keeps the original's empty scratch shape
NewCallWithoutScratch(i, scratch_bytes) ==
  [opcode |-> "custom-call",
   shape |-> <<i.result, MakeShape("U8", <<I64Zero>>)>>,
   operand0 |-> i.operand0, operand1 |-> i.operand1,
   custom_call_target |-> i.custom_call_target,
   window |-> i.window, dnums |-> i.dnums,
   backend_config |-> <<>>]

\* the new custom call (lines 418-434), before its backend config is set
NewCall(i, scratch_bytes) ==
  [opcode |-> "custom-call",
   shape |-> <<i.result, U8Shape(scratch_bytes)>>,
   operand0 |-> i.operand0, operand1 |-> i.operand1,
   custom_call_target |-> i.custom_call_target,
   window |-> i.window, dnums |-> i.dnums,
   backend_config |-> <<>>]

\* new_call->set_backend_config(backend_config)  (lines 422-434)
SetBackendConfig(call, algorithm, tensor_ops_enabled) ==
  [call EXCEPT !.backend_config =
     <<[algorithm |-> algorithm, tensor_ops_enabled |-> tensor_ops_enabled]>>]

\* the tuple (get-tuple-element(new_call, 0), u8[0] constant)  (lines 438-443)
NewTuple(call) ==
  [opcode |-> "tuple",
   shape |-> <<call.shape[1], U8Shape(I64Zero)>>,
   element0 |-> [opcode |-> "get-tuple-element", shape |-> call.shape[1],
                 operand |-> call, index |-> 0],
   element1 |-> [opcode |-> "constant", shape |-> U8Shape(I64Zero)]]

\* HloComputation::ReplaceInstruction(old, new): old leaves the computation
RemoveInstruction(comp, old) == SelectSeq(comp, LAMBDA x : x # old)

\* a RunOnInstruction that hands the picker's error on to its caller
RunOnInstructionStatusPropagating(pick_ok, config_ok, replace_ok) ==
  IF ~pick_ok THEN [status |-> "ALL_ALGORITHMS_FAILED", changed |-> <<>>]
  ELSE IF ~config_ok THEN [status |-> "SET_BACKEND_CONFIG_FAILED", changed |-> <<>>]
  ELSE IF ~replace_ok THEN [status |-> "REPLACE_FAILED", changed |-> <<>>]
  ELSE [status |-> "OK", changed |-> <<TRUE>>]

\* what RunOnInstruction returns: false after a picker error (lines 398-401),
\* the error of set_backend_config (434) or of ReplaceInstruction (445), else
\* true (446)
RunOnInstructionStatus(pick_ok, config_ok, replace_ok) ==
  IF ~pick_ok THEN [status |-> "OK", changed |-> <<FALSE>>]
  ELSE IF ~config_ok THEN [status |-> "SET_BACKEND_CONFIG_FAILED", changed |-> <<>>]
  ELSE IF ~replace_ok THEN [status |-> "REPLACE_FAILED", changed |-> <<>>]
  ELSE [status |-> "OK", changed |-> <<TRUE>>]

RunOnInstructionFinish ==
  /\ tpc[Main] = "pick_returned"
  /\ IF pick_result.status # "OK"
     THEN /\ roi_result' = RunOnInstructionStatus(FALSE, TRUE, TRUE)
          /\ UNCHANGED <<computation, replaced_by>>
     ELSE LET v == pick_result.value[1]
              new_call == NewCall(instr, v.scratch_bytes)
              configured == SetBackendConfig(new_call, v.algorithm, v.tensor_ops_enabled)
              new_tuple == NewTuple(configured)
          IN  \E config_ok \in BOOLEAN, replace_ok \in BOOLEAN :
                IF ~config_ok
                THEN /\ computation' = Append(computation, new_call)
                     /\ roi_result' = RunOnInstructionStatus(TRUE, config_ok, replace_ok)
                     /\ UNCHANGED replaced_by
                ELSE IF ~replace_ok
                THEN /\ computation' =
                          computation \o <<configured, new_tuple.element0,
                                           new_tuple.element1, new_tuple>>
                     /\ roi_result' = RunOnInstructionStatus(TRUE, config_ok, replace_ok)
                     /\ UNCHANGED replaced_by
                ELSE /\ computation' =
                          RemoveInstruction(computation, instr) \o
                            <<configured, new_tuple.element0, new_tuple.element1,
                              new_tuple>>
                     /\ replaced_by' = <<new_tuple>>
                     /\ roi_result' = RunOnInstructionStatus(TRUE, config_ok, replace_ok)
  /\ Goto(Main, "done")
  /\ UNCHANGED <<dev, mu, mutexes, instr, deviceVars, enumVars, loopVars, pick_result,
                 passVars>>

(***************************************************************************)
(* One RunOnInstruction call, by Main.                                     *)
(***************************************************************************)
\* no pass is running
InitPass ==
  /\ hlo_module = <<>>
  /\ comp_i = 1
  /\ run_changed = FALSE
  /\ convs = <<>>
  /\ conv_i = 1
  /\ changed = FALSE
  /\ processed = <<>>
  /\ roc_results = <<>>
  /\ run_result = NoChange

InitCall ==
  /\ stream = "none"
  /\ memory = {}
  /\ input_output_allocator = <<>>
  /\ scratch_allocator = <<>>
  /\ result_buf = <<>>
  /\ version = <<>>
  /\ use_winograd_nonfused = <<>>
  /\ algorithms = <<>>
  /\ with_winograd_nonfused = <<>>
  /\ next_alg = 1
  /\ requests = <<>>
  /\ run = <<>>
  /\ best_result = DefaultProfileResult
  /\ best_result_bytes_used = I64Zero
  /\ comparator = <<>>
  /\ first_algorithm = <<>>
  /\ trials = <<>>
  /\ pick_result = NoResult
  /\ computation = <<instr>>
  /\ replaced_by = <<>>
  /\ roi_result = NoChange

Init ==
  /\ tpc = [t \in Threads |-> "idle"]
  /\ dev = [t \in Threads |-> <<"cuda", 0>>]
  /\ mu = NoThread
  /\ mutexes = <<>>
  /\ instr \in Instructions
  /\ InitCall
  /\ InitPass

Next ==
  \/ RunOnInstructionCall
  \/ PickEntry
  \/ LockGpuGlobal(Main)
  \/ LockGpuEmplace(Main)
  \/ LockGpuDevice(Main)
  \/ LockGpuReturn(Main)
  \/ PickStream
  \/ PickAllocateOperand
  \/ PickInitBuffers
  \/ PickWinograd
  \/ PickGetAlgorithms
  \/ TrialBegin
  \/ TrialAllocate
  \/ TrialLaunch
  \/ TrialFinish
  \/ PickFinish
  \/ RunOnInstructionFinish

Spec == Init /\ [][Next]_vars

(***************************************************************************)
(* Concurrent calls of PickBestAlgorithm: LockGpu statement by statement,  *)
(* the picking section of each thread in one step.                         *)
(***************************************************************************)
\* lines 195-366 of a call: the picking section, which takes no lock, and the
\* return, which releases the device's
PickSection(t) ==
  /\ tpc[t] = "locked"
  /\ mutexes' = Unlock(mutexes, t)
  /\ Goto(t, "pick_returned")
  /\ UNCHANGED <<dev, mu, callVars>>

\* the thread's pass reaches its next convolution (lines 459-462)
NextCall(t) ==
  /\ tpc[t] = "pick_returned"
  /\ Goto(t, "lock_global")
  /\ UNCHANGED <<dev, mu, mutexes, callVars>>

InitLock ==
  /\ tpc = [t \in Threads |-> "lock_global"]
  /\ dev \in [Threads -> Devices]
  /\ mu = NoThread
  /\ mutexes = <<>>
  /\ instr = MakeInstruction(kCudnnConvForwardCallTarget, <<"F32", "F32", "F32">>,
                             SmallDims, SmallDims, Dnums2D, FALSE)
  /\ InitCall
  /\ InitPass

NextLock ==
  \E t \in Threads :
    \/ LockGpuGlobal(t)
    \/ LockGpuEmplace(t)
    \/ LockGpuDevice(t)
    \/ LockGpuReturn(t)
    \/ PickSection(t)
    \/ NextCall(t)

SpecLock == InitLock /\ [][NextLock]_vars

(***************************************************************************)
(* Lines 275-286 alone, over a wider range of shapes: the call has its     *)
(* lock, its stream and its three operand buffers and is about to decide   *)
(* on the Winograd non-fused algorithm.                                    *)
(***************************************************************************)
\* operand 0 shapes <<batch, features, rows, cols>> and <<batch, features, rows>>
\* with result shapes <<batch, features, 1, 1>> and <<batch, features, 1>>
WinogradInstructions ==
  {MakeInstruction(target, <<et, et, et>>, <<b, d, r, c>>, <<b, od, 1, 1>>,
                   Dnums2D, FALSE) :
     target \in CallTargets, et \in ElementTypes, b \in {1, 16, 17, 33},
     d \in {1, 512}, r \in {1, 1023, 1024}, c \in {1, 1024}, od \in {1, 512}}
  \cup
  {MakeInstruction(target, <<et, et, et>>, <<b, d, r>>, <<b, od, 1>>,
                   Dnums1D, FALSE) :
     target \in CallTargets, et \in ElementTypes, b \in {1, 16, 17, 33},
     d \in {1, 512}, r \in {1, 1024, 32768}, od \in {1, 512, 16384}}

\* the operands PickBestAlgorithm could allocate (lines 217-225)
OperandsFit(i) ==
  \A shape \in {PickArgs(i).input_shape, PickArgs(i).filter_shape,
                PickArgs(i).output_shape} :
    ~I64Less(GetMemoryLimitInBytes, ByteSizeOf(shape))

\* input_output_allocator after the three operand allocations
OperandAllocator(args) ==
  [allocated_buffers_ |->
     <<[id |-> <<0, 1>>, size |-> ByteSizeOf(args.input_shape)],
       [id |-> <<0, 2>>, size |-> ByteSizeOf(args.filter_shape)],
       [id |-> <<0, 3>>, size |-> ByteSizeOf(args.output_shape)]>>,
   total_allocated_bytes_ |->
     I64Add(I64Add(ByteSizeOf(args.input_shape), ByteSizeOf(args.filter_shape)),
            ByteSizeOf(args.output_shape))]

InitWinograd ==
  /\ tpc = [t \in Threads |-> IF t = Main THEN "winograd" ELSE "idle"]
  /\ dev = [t \in Threads |-> <<"cuda", 0>>]
  /\ mu = NoThread
  /\ mutexes = [k \in {<<"cuda", 0>>} |-> Main]
  /\ instr \in {i \in WinogradInstructions : OperandsFit(i)}
  /\ stream = "ok"
  /\ memory = {<<0, 1>>, <<0, 2>>, <<0, 3>>}
  /\ input_output_allocator = <<OperandAllocator(PickArgs(instr))>>
  /\ scratch_allocator = <<>>
  /\ result_buf = <<ResultBuf(PickArgs(instr).kind)>>
  /\ version = <<>>
  /\ use_winograd_nonfused = <<>>
  /\ algorithms = <<>>
  /\ with_winograd_nonfused = <<>>
  /\ next_alg = 1
  /\ requests = <<>>
  /\ run = <<>>
  /\ best_result = DefaultProfileResult
  /\ best_result_bytes_used = I64Zero
  /\ comparator = <<>>
  /\ first_algorithm = <<>>
  /\ trials = <<>>
  /\ pick_result = NoResult
  /\ computation = <<instr>>
  /\ replaced_by = <<>>
  /\ roi_result = NoChange
  /\ InitPass

NextWinograd ==
  \/ PickWinograd
  \/ PickGetAlgorithms

SpecWinograd == InitWinograd /\ [][NextWinograd]_vars

(***************************************************************************)
(* Run and RunOnComputation (lines 449-473).  Each RunOnInstruction call   *)
(* is one step, its result drawn from what RunOnInstruction can return.    *)
(***************************************************************************)
\* instructions of a computation: cuDNN convolution custom calls and others
InstructionKinds == {"conv", "other"}

SeqsUpTo(S, n) == UNION {[1 .. k -> S] : k \in 0 .. n}

Computations == SeqsUpTo(InstructionKinds, MaxInstructions)

\* module->MakeNonfusionComputations()
Modules == SeqsUpTo(Computations, MaxComputations)

\* the custom call a rewrite adds is a cuDNN convolution too
IsCustomCallToDnnConvolution(kind) == kind \in {"conv", "new_conv"}

\* the first loop of RunOnComputation (lines 451-456)
ConvPositions(c) ==
  SelectSeq([k \in 1 .. Len(c) |-> k],
            LAMBDA k : IsCustomCallToDnnConvolution(c[k]))

\* the computation after RunOnInstruction on its k-th instruction: the new
\* call is added once the picker has succeeded (line 426), the tuple takes the
\* place of the instruction when ReplaceInstruction succeeds (line 445)
AfterRunOnInstruction(c, k, pick_ok, config_ok, replace_ok) ==
  IF ~pick_ok THEN c
  ELSE IF config_ok /\ replace_ok THEN Append([c EXCEPT ![k] = "tuple"], "new_conv")
  ELSE Append(c, "new_conv")

passCallVars ==
  <<dev, mu, mutexes, instr, deviceVars, enumVars, loopVars, pick_result,
    computation, replaced_by, roi_result>>

\* Run's loop calls RunOnComputation, which collects the convolutions
\* (lines 468-469, 451-458)
RunOnComputationCall ==
  /\ tpc[Main] = "run_loop"
  /\ comp_i <= Len(hlo_module)
  /\ convs' = ConvPositions(hlo_module[comp_i])
  /\ conv_i' = 1
  /\ changed' = FALSE
  /\ Goto(Main, "roc_loop")
  /\ UNCHANGED <<passCallVars, hlo_module, comp_i, run_changed, processed,
                 roc_results, run_result>>

\* TF_ASSIGN_OR_RETURN(bool result, RunOnInstruction(instr)); changed |= result;
\* (lines 459-462); an error returns from RunOnComputation and, through line
\* 469, from Run
RunOnComputationStep ==
  /\ tpc[Main] = "roc_loop"
  /\ conv_i <= Len(convs)
  /\ \E pick_ok \in BOOLEAN, config_ok \in BOOLEAN, replace_ok \in BOOLEAN :
       LET r == RunOnInstructionStatus(pick_ok, config_ok, replace_ok)
           k == convs[conv_i]
       IN  /\ processed' =
                Append(processed, [computation |-> comp_i, instruction |-> k,
                                   pick_ok |-> pick_ok, result |-> r])
           /\ hlo_module' =
                [hlo_module EXCEPT ![comp_i] =
                   AfterRunOnInstruction(@, k, pick_ok, config_ok, replace_ok)]
           /\ IF r.status # "OK"
              THEN /\ roc_results' =
                        Append(roc_results,
                               [computation |-> comp_i,
                                result |-> [status |-> r.status, changed |-> <<>>]])
                   /\ run_result' = [status |-> r.status, changed |-> <<>>]
                   /\ Goto(Main, "run_done")
                   /\ UNCHANGED <<conv_i, changed>>
              ELSE /\ changed' = (changed \/ r.changed[1])
                   /\ conv_i' = conv_i + 1
                   /\ UNCHANGED <<tpc, roc_results, run_result>>
  /\ UNCHANGED <<passCallVars, comp_i, run_changed, convs>>

\* return changed; (line 463) and Run's changed |= result; (line 470)
RunOnComputationReturn ==
  /\ tpc[Main] = "roc_loop"
  /\ conv_i > Len(convs)
  /\ roc_results' =
       Append(roc_results,
              [computation |-> comp_i,
               result |-> [status |-> "OK", changed |-> <<changed>>]])
  /\ run_changed' = (run_changed \/ changed)
  /\ comp_i' = comp_i + 1
  /\ Goto(Main, "run_loop")
  /\ UNCHANGED <<passCallVars, hlo_module, convs, conv_i, changed, processed,
                 run_result>>

\* return changed; (line 472)
RunReturn ==
  /\ tpc[Main] = "run_loop"
  /\ comp_i > Len(hlo_module)
  /\ run_result' = [status |-> "OK", changed |-> <<run_changed>>]
  /\ Goto(Main, "run_done")
  /\ UNCHANGED <<passCallVars, hlo_module, comp_i, run_changed, convs, conv_i,
                 changed, processed, roc_results>>

InitRun ==
  /\ tpc = [t \in Threads |-> IF t = Main THEN "run_loop" ELSE "idle"]
  /\ dev = [t \in Threads |-> <<"cuda", 0>>]
  /\ mu = NoThread
  /\ mutexes = <<>>
  /\ instr = MakeInstruction(kCudnnConvForwardCallTarget, <<"F32", "F32", "F32">>,
                             SmallDims, SmallDims, Dnums2D, FALSE)
  /\ InitCall
  /\ hlo_module \in Modules
  /\ comp_i = 1
  /\ run_changed = FALSE
  /\ convs = <<>>
  /\ conv_i = 1
  /\ changed = FALSE
  /\ processed = <<>>
  /\ roc_results = <<>>
  /\ run_result = NoChange

NextRun ==
  \/ RunOnComputationCall
  \/ RunOnComputationStep
  \/ RunOnComputationReturn
  \/ RunReturn

SpecRun == InitRun /\ [][NextRun]_vars

(***************************************************************************)
(* One ScratchAllocator under any sequence of AllocateBytes calls          *)
(* (lines 37-76).                                                          *)
(***************************************************************************)
\* byte sizes asked for: 1 byte, 3 GiB, 4 GiB (the limit itself), 4 GiB + 1
AllocatorSizes ==
  {I64(1), I64Mul(I64Shl1(30), 3), I64Shl1(32), I64Add(I64Shl1(32), I64(1))}

\* one AllocateBytes(stream, byte_size) call
AllocatorRequest ==
  /\ tpc[Main] = "allocating"
  /\ Len(requests) <= MaxRequests
  /\ \E byte_size \in AllocatorSizes, granted \in BOOLEAN :
       LET id == <<1, Len(scratch_allocator[1].allocated_buffers_) + 1>>
           r == AllocateBytes(scratch_allocator[1], byte_size, granted, id)
       IN  /\ scratch_allocator' = <<r.allocator>>
           /\ requests' = Append(requests, [byte_size |-> byte_size,
                                            status |-> r.status, asked |-> r.asked])
           /\ memory' = IF r.status = "OK" THEN memory \cup {id} ELSE memory
  /\ UNCHANGED <<lockVars, instr, stream, input_output_allocator, enumVars,
                 next_alg, run, best_result, best_result_bytes_used, comparator,
                 first_algorithm, trials, pick_result, rewriteVars>>

InitAllocator ==
  /\ tpc = [t \in Threads |-> IF t = Main THEN "allocating" ELSE "idle"]
  /\ dev = [t \in Threads |-> <<"cuda", 0>>]
  /\ mu = NoThread
  /\ mutexes = <<>>
  /\ instr = MakeInstruction(kCudnnConvForwardCallTarget, <<"F32", "F32", "F32">>,
                             SmallDims, SmallDims, Dnums2D, FALSE)
  /\ stream = "none"
  /\ memory = {}
  /\ input_output_allocator = <<>>
  /\ scratch_allocator = <<NewScratchAllocator>>
  /\ result_buf = <<>>
  /\ version = <<>>
  /\ use_winograd_nonfused = <<>>
  /\ algorithms = <<>>
  /\ with_winograd_nonfused = <<>>
  /\ next_alg = 1
  /\ requests = <<>>
  /\ run = <<>>
  /\ best_result = DefaultProfileResult
  /\ best_result_bytes_used = I64Zero
  /\ comparator = <<>>
  /\ first_algorithm = <<>>
  /\ trials = <<>>
  /\ pick_result = NoResult
  /\ computation = <<instr>>
  /\ replaced_by = <<>>
  /\ roi_result = NoChange
  /\ InitPass

NextAllocator == AllocatorRequest

SpecAllocator == InitAllocator /\ [][NextAllocator]_vars

(***************************************************************************)
(* Properties.                                                             *)
(***************************************************************************)
\* labels of a call between LockGpu returning and the call returning
PickingLabels ==
  {"locked", "alloc_operands", "init_buffers", "winograd", "get_algorithms",
   "loop", "run_conv", "trial_check"}

InPickingSection(t) == tpc[t] \in PickingLabels

\* C2: at any time at most one call is inside its picking section for any
\* given (platform, device ordinal): two threads that are both between LockGpu
\* returning and their call returning are on different devices.
C2_OneSessionPerDevice ==
  \A t1, t2 \in Threads :
    (t1 # t2 /\ InPickingSection(t1) /\ InPickingSection(t2)) => dev[t1] # dev[t2]

\* two sessions run on two devices while a third thread waits in LockGpu for
\* one of them
C2_Witness ==
  \E t1, t2, t3 \in Threads :
    /\ t1 # t2 /\ t2 # t3 /\ t1 # t3
    /\ InPickingSection(t1) /\ InPickingSection(t2)
    /\ tpc[t3] = "lock_device" /\ dev[t3] = dev[t1]

\* trials of the history that launched and gave a valid profile
Succeeded == {i \in 1 .. Len(trials) : trials[i].succeeded}

PickReturned == pick_result.status # "none"

\* the trial the returned algorithm was run in (the candidates are distinct)
IsReturnedTrial(w) ==
  /\ pick_result.value[1].algorithm = trials[w].alg.algo_id
  /\ pick_result.value[1].tensor_ops_enabled = trials[w].alg.tensor_ops_enabled

\* C1: when at least one trial succeeded with a valid profile, the call
\* returns a result, and the returned algorithm is that of a successful trial
\* whose elapsed time is minimal among the successful trials and strictly
\* smaller than that of every successful trial enumerated before it.
C1_ReturnsEarliestFastest ==
  (PickReturned /\ Succeeded # {}) =>
    /\ pick_result.status = "OK"
    /\ \E w \in Succeeded :
         /\ IsReturnedTrial(w)
         /\ \A i \in Succeeded :
              trials[w].elapsed_time_in_ms <= trials[i].elapsed_time_in_ms
         /\ \A i \in Succeeded :
              i < w => trials[w].elapsed_time_in_ms < trials[i].elapsed_time_in_ms

\* two successful trials tie on the minimal time and the first is returned
C1_Witness ==
  /\ pick_result.status = "OK"
  /\ Succeeded = {1, 2}
  /\ trials[1].elapsed_time_in_ms = trials[2].elapsed_time_in_ms
  /\ IsReturnedTrial(1)

\* C3: once PickBestAlgorithm has returned, with a result or with any error,
\* no buffer obtained through the operand allocator or a trial's allocator is
\* still allocated.
C3_NoBufferAfterReturn ==
  PickReturned =>
    memory = {} /\ input_output_allocator = <<>> /\ scratch_allocator = <<>>

\* the call returned after a trial that used scratch memory and a trial that
\* failed
C3_Witness ==
  /\ PickReturned
  /\ memory = {}
  /\ \E i \in Succeeded : trials[i].scratch_bytes # I64Zero
  /\ \E i \in 1 .. Len(trials) : ~trials[i].succeeded

\* C4: the scratch bytes a trial's allocator has handed out never exceed the
\* 4 GiB limit.
C4_TrialTotalWithinLimit ==
  scratch_allocator # <<>> =>
    ~I64Less(GetMemoryLimitInBytes, TotalAllocatedBytes(scratch_allocator[1]))

\* the loop over the candidates ran to its end
LoopFinished ==
  /\ PickReturned
  /\ with_winograd_nonfused # <<>>
  /\ Len(trials) = Len(algorithms)

\* C5: when the loop ran over every candidate (possibly none) and no trial
\* succeeded with a valid profile, PickBestAlgorithm returns the "all
\* algorithms failed" error, and RunOnInstruction then returns changed = false
\* with an ok status and leaves the computation as it was, the instruction not
\* replaced.
C5_TotalFailureLeavesInstruction ==
  (LoopFinished /\ Succeeded = {}) =>
    /\ pick_result = Error("ALL_ALGORITHMS_FAILED")
    /\ tpc[Main] = "done" =>
         /\ roi_result = [status |-> "OK", changed |-> <<FALSE>>]
         /\ computation = <<instr>>
         /\ replaced_by = <<>>

\* RunOnInstruction returned after two candidates that both failed
C5_Witness ==
  /\ tpc[Main] = "done"
  /\ Len(trials) = 2
  /\ Succeeded = {}
  /\ roi_result.changed = <<FALSE>>

\* trials on which the comparator was created
References == {i \in 1 .. Len(trials) : trials[i].reference}

\* C6, as stated: in cross-check mode the first successful trial is the
\* reference and is not compared, every later successful trial is compared
\* against it, and failed trials are neither compared nor the reference.
C6_FirstSuccessIsReference ==
  CrossCheckEnabled(Args) =>
    \A i \in 1 .. Len(trials) :
      IF ~trials[i].succeeded
      THEN trials[i].compare = "none" /\ ~trials[i].reference
      ELSE IF \A j \in Succeeded : i <= j
      THEN trials[i].reference /\ trials[i].compare = "none"
      ELSE /\ ~trials[i].reference
           /\ trials[i].compare # "none"
           /\ trials[i].against \in Succeeded
           /\ \A j \in Succeeded : trials[i].against <= j

\* C6, amended: in cross-check mode the reference is the first successful
\* trial on which the comparator could be created; it is not compared; every
\* successful trial after it is compared against it, once; successful trials
\* before it (their comparator was not created) and failed trials are neither
\* compared nor the reference.
C6_FirstCreatedIsReference ==
  CrossCheckEnabled(Args) =>
    /\ Cardinality(References) <= 1
    /\ References \subseteq Succeeded
    /\ \A i \in 1 .. Len(trials) :
         IF trials[i].succeeded /\ \E r \in References : r < i
         THEN /\ trials[i].compare # "none"
              /\ trials[i].against \in References
         ELSE trials[i].compare = "none" /\ trials[i].against = 0

\* the comparator was created on the first successful trial and the second
\* was compared against it
C6_Witness ==
  /\ CrossCheckEnabled(Args)
  /\ Succeeded = {1, 2}
  /\ trials[1].reference
  /\ trials[2].compare # "none"
  /\ trials[2].against = 1

\* trials whose comparison erred or reported inequality
BadComparisons ==
  {i \in 1 .. Len(trials) : trials[i].compare \in {"unequal", "error"}}

\* C7: after a comparison that erred or reported inequality, with the crash
\* option set the call has failed fatally and nothing was returned; with the
\* option unset the call is not aborted, and when it returns every candidate
\* was tried and it returns a result or the total-failure error.
C7_CrashOnlyWithOption ==
  BadComparisons # {} =>
    IF instr.xla_gpu_crash_on_verification_failures
    THEN tpc[Main] = "fatal" /\ pick_result = NoResult /\ roi_result = NoChange
    ELSE /\ tpc[Main] # "fatal"
         /\ PickReturned =>
              /\ Len(trials) = Len(algorithms)
              /\ pick_result.status \in {"OK", "ALL_ALGORITHMS_FAILED"}

\* without the option, a trial that mismatched the reference was followed by
\* the return of a result
C7_Witness ==
  /\ ~instr.xla_gpu_crash_on_verification_failures
  /\ BadComparisons # {}
  /\ pick_result.status = "OK"

\* the mutex of Main's device is held by Main
HeldByMain == dev[Main] \in DOMAIN mutexes /\ mutexes[dev[Main]] = Main

\* C8: within the call the stream, the buffers and the trials exist only
\* under the device lock, which is therefore taken before the stream is
\* created, before any buffer is allocated and before any trial runs and is
\* held across the trials; once the call has returned, by whichever return
\* statement, Main holds neither the device's mutex nor the global one.
C8_LockHeldAcrossCall ==
  /\ (\/ InPickingSection(Main)
      \/ stream # "none"
      \/ memory # {}
      \/ input_output_allocator # <<>>
      \/ scratch_allocator # <<>>
      \/ (trials # <<>> /\ ~PickReturned)) => HeldByMain
  /\ PickReturned =>
       /\ tpc[Main] \in {"pick_returned", "done"}
       /\ ~HeldByMain
       /\ mu # Main

\* the call returned early, an operand allocation having been refused, and
\* the device's mutex is free
C8_Witness ==
  /\ pick_result.status = "ALLOCATE_FAILED"
  /\ dev[Main] \in DOMAIN mutexes
  /\ mutexes[dev[Main]] = NoThread

\* C9: the three fields of a result belong to one trial: the algorithm id and
\* the tensor-op flag are those of a successful trial, which is the one C1
\* names, and the scratch byte count is what that trial's own allocator had
\* allocated.
C9_ResultOfOneTrial ==
  pick_result.status = "OK" =>
    \E w \in Succeeded :
      /\ IsReturnedTrial(w)
      /\ pick_result.value[1].scratch_bytes = trials[w].scratch_bytes

\* the first of two successful trials wins; the second, slower one used a
\* different amount of scratch memory, and the first's amount is returned
C9_Witness ==
  /\ pick_result.status = "OK"
  /\ Succeeded = {1, 2}
  /\ IsReturnedTrial(1)
  /\ trials[1].scratch_bytes # I64Zero
  /\ trials[2].scratch_bytes # I64Zero
  /\ trials[1].scratch_bytes # trials[2].scratch_bytes
  /\ pick_result.value[1].scratch_bytes = trials[1].scratch_bytes

\* the largest product p with p * 4 < 2^31
WinogradMaxProduct == (2 ^ 29) - 1

\* ceil(batch / 16) * max(in, out) * rows * cols * 4 < 2^31 for positive
\* dimensions, by division: a * b <= n iff a <= n \div b
WinogradTotalBelowThreshold(batch, in_depths, out_depths, rows, cols) ==
  LET ceil == CHOOSE q \in 0 .. batch : 16 * q >= batch /\ 16 * (q - 1) < batch
      depths == CHOOSE m \in {in_depths, out_depths} : m >= in_depths /\ m >= out_depths
  IN  ceil <= ((WinogradMaxProduct \div cols) \div rows) \div depths

\* C10: with a library major version >= 7 the function returns true for every
\* shape; with a major version < 7 it returns true exactly when
\* ceil(batch/16) * max(input features, output features) * rows * cols * 4
\* < 2^31, cols being 1 with a single spatial dimension; and GetAlgorithms is
\* called with the value it returned.
C10_WinogradPolicy ==
  /\ (version # <<>> /\ version[1].ok) =>
       LET in == Args.input_shape.dimensions
           out == Args.output_shape.dimensions
           cols == IF Len(in) = 3 THEN 1 ELSE in[4]
       IN  use_winograd_nonfused[1] =
             (\/ version[1].major_version >= 7
              \/ WinogradTotalBelowThreshold(in[1], in[2], out[2], in[3], cols))
  /\ with_winograd_nonfused # <<>> => with_winograd_nonfused = use_winograd_nonfused

\* version 6, one spatial dimension, a total of at least 2^31: the function
\* returned false and GetAlgorithms was called with false
C10_Witness ==
  /\ version # <<>> /\ version[1].ok /\ version[1].major_version < 7
  /\ Len(Args.input_shape.dimensions) = 3
  /\ with_winograd_nonfused = <<FALSE>>

\* the running trial made a scratch request over the limit
OverLimitTrial ==
  /\ tpc[Main] = "trial_check"
  /\ requests # <<>>
  /\ I64Less(GetMemoryLimitInBytes, requests[Len(requests)].byte_size)

\* C11: a scratch request larger than the 4 GiB limit fails with
\* RESOURCE_EXHAUSTED and the device allocator is not asked; the trial that
\* made it has failed to launch and no later request is made in it; the step
\* that ends this trial is not fatal and does not return: it goes back to the
\* loop at the next candidate, with the running best and its scratch bytes as
\* they were and the trial's scratch buffers freed; and a call that returns
\* from the loop has tried every candidate.
C11_OverLimitRequestAbandonsTrial ==
  /\ [](\A i \in 1 .. Len(requests) :
          I64Less(GetMemoryLimitInBytes, requests[i].byte_size) =>
            /\ requests[i].status = "RESOURCE_EXHAUSTED"
            /\ ~requests[i].asked
            /\ i = Len(requests)
            /\ run = <<[launch_ok |-> FALSE, profile_result |-> DefaultProfileResult]>>)
  /\ [][OverLimitTrial =>
          /\ tpc'[Main] = "loop"
          /\ next_alg' = next_alg + 1
          /\ best_result' = best_result
          /\ best_result_bytes_used' = best_result_bytes_used
          /\ pick_result' = NoResult
          /\ memory' \subseteq {<<0, 1>>, <<0, 2>>, <<0, 3>>}
          /\ Len(trials') = Len(trials) + 1
          /\ ~trials'[Len(trials')].succeeded]_vars
  /\ [](pick_result.status \in {"OK", "ALL_ALGORITHMS_FAILED"} =>
          Len(trials) = Len(algorithms))

\* the first candidate succeeded and is the running best; the second has got
\* 3 GiB of scratch memory and then asked for more than the limit
C11_Witness ==
  /\ OverLimitTrial
  /\ next_alg = 2
  /\ IsValid(best_result)
  /\ Len(requests) = 2
  /\ requests[1].status = "OK"
  /\ requests[2].status = "RESOURCE_EXHAUSTED"

\* RunOnInstruction has returned
Returned == tpc[Main] = "done"

\* the replacement is the tuple (get-tuple-element(call, 0), u8[0] constant),
\* of the original's shape, on a custom call with the original's call target,
\* operands, window and dimension numbers, the picked algorithm and tensor-op
\* flag as its backend config, and the shape (conv result, u8[scratch bytes])
IsRewriteOf(t, i, picked) ==
  /\ t.opcode = "tuple"
  /\ t.shape = <<i.result, MakeShape("U8", <<I64Zero>>)>>
  /\ t.element0.opcode = "get-tuple-element"
  /\ t.element0.index = 0
  /\ t.element0.shape = i.result
  /\ t.element1 = [opcode |-> "constant", shape |-> MakeShape("U8", <<I64Zero>>)]
  /\ LET call == t.element0.operand
     IN  /\ call.opcode = "custom-call"
         /\ call.custom_call_target = i.custom_call_target
         /\ call.operand0 = i.operand0
         /\ call.operand1 = i.operand1
         /\ call.window = i.window
         /\ call.dnums = i.dnums
         /\ call.backend_config =
              <<[algorithm |-> picked.algorithm,
                 tensor_ops_enabled |-> picked.tensor_ops_enabled]>>
         /\ call.shape = <<i.result, MakeShape("U8", <<picked.scratch_bytes>>)>>

\* the original instruction has been replaced by such a tuple: the computation
\* holds the new call, the two elements and the tuple, and no longer the
\* original
Rewritten ==
  /\ replaced_by # <<>>
  /\ IsRewriteOf(replaced_by[1], instr, pick_result.value[1])
  /\ computation =
       <<replaced_by[1].element0.operand, replaced_by[1].element0,
         replaced_by[1].element1, replaced_by[1]>>

\* C12, as stated: whenever the picker has succeeded, RunOnInstruction returns
\* changed = true and has replaced the instruction by the rewrite.
C12_PickedMeansRewritten ==
  (Returned /\ pick_result.status = "OK") =>
    /\ roi_result = [status |-> "OK", changed |-> <<TRUE>>]
    /\ Rewritten

\* C12, amended: when the picker has succeeded, RunOnInstruction returns
\* either changed = true, having replaced the instruction by the rewrite, or
\* the error of set_backend_config or of ReplaceInstruction, the instruction
\* then still in the computation and not replaced; and it returns changed =
\* true only after the picker has succeeded.
C12_RewrittenUnlessHardError ==
  /\ (Returned /\ pick_result.status = "OK") =>
       IF roi_result.status = "OK"
       THEN roi_result.changed = <<TRUE>> /\ Rewritten
       ELSE /\ roi_result.status \in {"SET_BACKEND_CONFIG_FAILED", "REPLACE_FAILED"}
            /\ roi_result.changed = <<>>
            /\ replaced_by = <<>>
            /\ computation[1] = instr
  /\ roi_result.changed = <<TRUE>> => pick_result.status = "OK"

\* a backward-input call was rewritten with 3 GiB of scratch memory
C12_Witness ==
  /\ Returned
  /\ roi_result.changed = <<TRUE>>
  /\ instr.custom_call_target = kCudnnConvBackwardInputCallTarget
  /\ pick_result.value[1].scratch_bytes = I64Mul(I64Shl1(30), 3)
  /\ Rewritten

\* the convolutions the module held when the pass began, as <<computation,
\* position>> in the order of the pass; a rewritten one is now a tuple
RECURSIVE ConvsFrom(_)
ConvsFrom(c) ==
  IF c > Len(hlo_module) THEN <<>>
  ELSE LET comp == hlo_module[c]
           at == SelectSeq([k \in 1 .. Len(comp) |-> k],
                           LAMBDA k : comp[k] \in {"conv", "tuple"})
       IN  [j \in 1 .. Len(at) |-> <<c, at[j]>>] \o ConvsFrom(c + 1)

\* the instructions RunOnInstruction was called on, in the order of the calls
ProcessedPositions ==
  [j \in 1 .. Len(processed) |->
     <<processed[j].computation, processed[j].instruction>>]

IsPrefix(a, b) == Len(a) <= Len(b) /\ SubSeq(b, 1, Len(a)) = a

\* RunOnInstruction calls that rewrote their instruction
RewrittenCalls == {j \in 1 .. Len(processed) : processed[j].result.changed = <<TRUE>>}

\* RunOnInstruction calls that returned an error
HardErrors == {j \in 1 .. Len(processed) : processed[j].result.status # "OK"}

\* C13: the convolutions are processed in order, each once.  A picker failure
\* gives ok/false and is never an error.  A RunOnComputation call that returns
\* ok returns changed = true exactly when one of its convolutions was
\* rewritten, and Run that returns ok has processed every convolution of every
\* computation and returns changed = true exactly when one was rewritten.  An
\* error is the result of the last RunOnInstruction call made: the pass is over
\* and has returned that error.
C13_PassAggregates ==
  /\ IsPrefix(ProcessedPositions, ConvsFrom(1))
  /\ \A j \in 1 .. Len(processed) :
       ~processed[j].pick_ok =>
         processed[j].result = [status |-> "OK", changed |-> <<FALSE>>]
  /\ \A i \in 1 .. Len(roc_results) :
       LET c == roc_results[i].computation
       IN  /\ c = i
           /\ roc_results[i].result.status = "OK" =>
                roc_results[i].result.changed =
                  <<\E j \in RewrittenCalls : processed[j].computation = c>>
  /\ run_result.status = "OK" =>
       /\ HardErrors = {}
       /\ ProcessedPositions = ConvsFrom(1)
       /\ Len(roc_results) = Len(hlo_module)
       /\ run_result.changed = <<RewrittenCalls # {}>>
  /\ HardErrors \subseteq {Len(processed)}
  /\ HardErrors # {} =>
       /\ tpc[Main] = "run_done"
       /\ run_result = [status |-> processed[Len(processed)].result.status,
                        changed |-> <<>>]
       /\ roc_results[Len(roc_results)].result = run_result
  /\ tpc[Main] = "run_done" => run_result.status # "none"
  /\ run_result.status \notin {"none", "OK"} => HardErrors # {}

\* the picker failed on the first convolution of the first computation, the
\* second was rewritten, the convolution of the second computation was
\* processed too, and Run returned changed = true
C13_Witness ==
  /\ run_result = [status |-> "OK", changed |-> <<TRUE>>]
  /\ Len(processed) = 3
  /\ ~processed[1].pick_ok
  /\ processed[2].result.changed = <<TRUE>>
  /\ processed[3].computation = 2
  /\ roc_results[2].result.changed = <<FALSE>>

\* C14: while the call's stream is one whose Init failed, the call has
\* failed fatally, no operand buffer is allocated, no trial has run and
\* nothing has been returned.
C14_StreamInitFailureIsFatal ==
  stream = "failed" =>
    /\ tpc[Main] = "fatal"
    /\ memory = {}
    /\ trials = <<>>
    /\ pick_result = NoResult

\* the version query of the call failed
VersionQueryFailed == version # <<>> /\ ~version[1].ok

\* the size test on the shapes of the call
SizeTestOfCall ==
  LET in == Args.input_shape.dimensions
      out == Args.output_shape.dimensions
      cols == IF Len(in) = 3 THEN 1 ELSE in[4]
  IN  WinogradTotalBelowThreshold(in[1], in[2], out[2], in[3], cols)

\* C15, as stated: once the version query has failed the call is fatal or
\* has returned an error, and no algorithm was enumerated, no trial was run
\* and no result was returned.
C15_VersionFailureEndsCall ==
  VersionQueryFailed =>
    /\ tpc[Main] = "fatal" \/ pick_result.status \notin {"none", "OK"}
    /\ with_winograd_nonfused = <<>>
    /\ algorithms = <<>>
    /\ trials = <<>>

\* C15, amended: a failed version query is neither fatal nor propagated.  The
\* flag is then the outcome of the size test, as for a library older than 7,
\* GetAlgorithms is called with it, and the call goes on as after a query that
\* succeeded: it fails fatally only when the enumeration fails or a
\* verification fails under the crash option, and it returns a result or the
\* total-failure error.
C15_VersionFailureFallsBackToSizeTest ==
  VersionQueryFailed =>
    /\ use_winograd_nonfused = <<SizeTestOfCall>>
    /\ with_winograd_nonfused # <<>> => with_winograd_nonfused = use_winograd_nonfused
    /\ tpc[Main] = "fatal" =>
         \/ with_winograd_nonfused = <<>>
         \/ instr.xla_gpu_crash_on_verification_failures
    /\ pick_result.status \in {"none", "OK", "ALL_ALGORITHMS_FAILED"}
    /\ PickReturned => Len(trials) = Len(algorithms)

\* the query failed, the size test excluded the Winograd non-fused algorithm,
\* and the call returned a result
C15_Witness ==
  /\ VersionQueryFailed
  /\ with_winograd_nonfused = <<FALSE>>
  /\ trials # <<>>
  /\ pick_result.status = "OK"

\* thread t is in LockGpu, between its call and its return
InLockGpu(t) == tpc[t] \in {"lock_global", "lock_emplace", "lock_device", "lock_return"}

\* a picking session is active on device d
SessionActive(d) == \E u \in Threads : InPickingSection(u) /\ dev[u] = d

\* thread t cannot go on before the picking session on device d has finished:
\* it waits for mu, whose holder waits for the mutex of d, which the session
\* holds
WaitsForSessionOn(t, d) ==
  /\ tpc[t] = "lock_global"
  /\ mu # NoThread
  /\ tpc[mu] = "lock_device"
  /\ dev[mu] = d
  /\ mutexes[d] # NoThread
  /\ InPickingSection(mutexes[d])

\* C16: a thread in LockGpu for a device on which no picking session is
\* active never waits for the picking session on a different device to
\* finish.
C16_FreeDeviceDoesNotWait ==
  \A t \in Threads :
    (InLockGpu(t) /\ ~SessionActive(dev[t])) =>
      \A d \in Devices \ {dev[t]} : ~WaitsForSessionOn(t, d)

\* trials that were compared
Compared == {i \in 1 .. Len(trials) : trials[i].compare # "none"}

\* C17: within one call the comparator is created on at most one trial and,
\* once it exists, stays the comparator of that trial with that trial's
\* algorithm as first_algorithm; every comparison of the call was made against
\* that one trial, whichever trial is the running best.
C17_OneReferencePerCall ==
  /\ Cardinality(References) <= 1
  /\ comparator = <<>> <=> References = {}
  /\ first_algorithm = <<>> <=> comparator = <<>>
  /\ comparator # <<>> =>
       /\ References = {comparator[1].reference}
       /\ first_algorithm = <<trials[comparator[1].reference].alg>>
  /\ \A i \in Compared :
       /\ comparator # <<>>
       /\ trials[i].against = comparator[1].reference
       /\ trials[i].against < i

\* the first trial is the reference; the second, compared against it, is
\* faster and is the returned winner
C17_Witness ==
  /\ pick_result.status = "OK"
  /\ References = {1}
  /\ Compared = {2}
  /\ trials[2].elapsed_time_in_ms < trials[1].elapsed_time_in_ms
  /\ IsReturnedTrial(2)
  /\ ~IsReturnedTrial(1)

\* what a selection by time alone returns for the history: the algorithm and
\* scratch bytes of the earliest among the fastest successful trials, whatever
\* was compared and with what outcome, or the total-failure error
SelectionByTime ==
  IF Succeeded = {} THEN Error("ALL_ALGORITHMS_FAILED")
  ELSE LET w == CHOOSE i \in Succeeded :
                  \A j \in Succeeded :
                    \/ trials[i].elapsed_time_in_ms < trials[j].elapsed_time_in_ms
                    \/ /\ trials[i].elapsed_time_in_ms = trials[j].elapsed_time_in_ms
                       /\ i <= j
       IN  [status |-> "OK",
            value |-> <<[algorithm |-> trials[w].alg.algo_id,
                         tensor_ops_enabled |-> trials[w].alg.tensor_ops_enabled,
                         scratch_bytes |-> trials[w].scratch_bytes]>>]

\* a trial that launched and gave a valid profile is about to be judged, the
\* crash option unset
UncheckedTrialEnds ==
  /\ tpc[Main] = "trial_check"
  /\ TrialSucceeded(run[1])
  /\ ~instr.xla_gpu_crash_on_verification_failures

\* C18: with the crash option unset, every trial that launched with a valid
\* profile, whatever the outcome of its cross-check, is recorded as
\* successful and takes part in the best-so-far update, becoming the best if
\* and only if its time is strictly smaller; and the call that returns from
\* the loop returns what a selection by time alone returns for its trials,
\* with cross-checking enabled as with cross-checking disabled.
C18_CrossCheckDoesNotSelect ==
  /\ [][UncheckedTrialEnds =>
          LET p == run[1].profile_result
              faster == p.elapsed_time_in_ms < best_result.elapsed_time_in_ms
          IN  /\ tpc'[Main] = "loop"
              /\ trials'[Len(trials')].succeeded
              /\ best_result' = IF faster THEN p ELSE best_result
              /\ best_result_bytes_used' =
                   IF faster THEN TotalAllocatedBytes(scratch_allocator[1])
                   ELSE best_result_bytes_used]_vars
  /\ []((/\ ~instr.xla_gpu_crash_on_verification_failures
         /\ pick_result.status \in {"OK", "ALL_ALGORITHMS_FAILED"}) =>
          pick_result = SelectionByTime)

\* the second trial was found unequal to the reference or could not be
\* compared, is strictly the fastest and is the returned winner
C18_Witness ==
  /\ ~instr.xla_gpu_crash_on_verification_failures
  /\ pick_result.status = "OK"
  /\ Succeeded = {1, 2}
  /\ trials[2].compare \in {"unequal", "error"}
  /\ trials[2].elapsed_time_in_ms < trials[1].elapsed_time_in_ms
  /\ IsReturnedTrial(2)

\* the shapes input_buf, filter_buf and output_buf are to be sized from, by
\* call target: the result shape where the result buffer is, operand 0 and
\* operand 1 elsewhere
ExpectedBufferShapes(i) ==
  CASE i.custom_call_target = kCudnnConvForwardCallTarget ->
         <<i.operand0, i.operand1, i.result>>
    [] i.custom_call_target = kCudnnConvBackwardInputCallTarget ->
         <<i.result, i.operand1, i.operand0>>
    [] i.custom_call_target = kCudnnConvBackwardFilterCallTarget ->
         <<i.operand0, i.result, i.operand1>>

\* the operand buffers allocated so far: input_buf, filter_buf, output_buf
OperandBuffers ==
  IF input_output_allocator = <<>> THEN <<>>
  ELSE input_output_allocator[1].allocated_buffers_

\* C19: for each call target the result buffer PickBestAlgorithm chooses is
\* output_buf for a forward call, input_buf for a backward-input call and
\* filter_buf for a backward-filter call, and the buffer at that position has
\* the byte size of the instruction's result shape, while the other two have
\* the byte sizes of operand 0 and operand 1.
C19_ResultBufferIsResultShape ==
  /\ \A n \in 1 .. Len(OperandBuffers) :
       OperandBuffers[n].size = ByteSizeOf(ExpectedBufferShapes(instr)[n])
  /\ result_buf # <<>> =>
       LET r == result_buf[1]
       IN  /\ Args.kind = "kForward" => r = 3
           /\ Args.kind = "kBackwardInput" => r = 1
           /\ Args.kind = "kBackwardFilter" => r = 2
           /\ ExpectedBufferShapes(instr)[r] = instr.result
           /\ ~PickReturned =>
                /\ Len(OperandBuffers) = 3
                /\ OperandBuffers[r].size = ByteSizeOf(instr.result)
                /\ {OperandBuffers[n].size : n \in {1, 2, 3} \ {r}} =
                     {ByteSizeOf(instr.operand0), ByteSizeOf(instr.operand1)}

\* a backward-filter call has its three buffers, of three different sizes,
\* filter_buf being the one of the result's size
C19_Witness ==
  /\ instr.custom_call_target = kCudnnConvBackwardFilterCallTarget
  /\ result_buf = <<2>>
  /\ Len(OperandBuffers) = 3
  /\ Cardinality({OperandBuffers[n].size : n \in 1 .. 3}) = 3
  /\ OperandBuffers[2].size = ByteSizeOf(instr.result)

\* the requests that succeeded, in the order they were made
GrantedRequests == SelectSeq(requests, LAMBDA q : q.status = "OK")

RECURSIVE SumOfSizes(_)
SumOfSizes(qs) ==
  IF qs = <<>> THEN I64Zero
  ELSE I64Add(Head(qs).byte_size, SumOfSizes(Tail(qs)))

\* C20: after any sequence of AllocateBytes calls on one allocator its total
\* is the sum of the byte sizes of the requests that succeeded and its
\* owned-buffer list holds one buffer per such request, of that request's
\* size, in order, these being the buffers allocated on the device.  A
\* request over the limit fails without the device allocator being asked, a
\* request within the limit asks it once, and a request that fails leaves the
\* allocator, total and list, as it was.
C20_TotalIsSumOfGranted ==
  /\ [](LET alloc == scratch_allocator[1]
        IN  /\ TotalAllocatedBytes(alloc) = SumOfSizes(GrantedRequests)
            /\ Len(alloc.allocated_buffers_) = Len(GrantedRequests)
            /\ \A n \in 1 .. Len(GrantedRequests) :
                 alloc.allocated_buffers_[n].size = GrantedRequests[n].byte_size
            /\ Cardinality(OwnedBuffers(alloc)) = Len(GrantedRequests)
            /\ memory = OwnedBuffers(alloc)
            /\ \A n \in 1 .. Len(requests) :
                 /\ requests[n].asked =
                      ~I64Less(GetMemoryLimitInBytes, requests[n].byte_size)
                 /\ ~requests[n].asked => requests[n].status = "RESOURCE_EXHAUSTED"
                 /\ requests[n].asked =>
                      requests[n].status \in {"OK", "ALLOCATE_FAILED"})
  /\ [][(/\ Len(requests') = Len(requests) + 1
         /\ requests'[Len(requests')].status # "OK") =>
          /\ scratch_allocator' = scratch_allocator
          /\ memory' = memory]_vars

\* 3 GiB granted, a request over the limit, then 4 GiB granted: two buffers
\* and a total of 7 GiB
C20_Witness ==
  /\ tpc[Main] = "allocating"
  /\ Len(requests) = 3
  /\ requests[1].status = "OK"
  /\ requests[2].status = "RESOURCE_EXHAUSTED"
  /\ requests[3].status = "OK"
  /\ requests[3].byte_size = GetMemoryLimitInBytes
  /\ Len(scratch_allocator[1].allocated_buffers_) = 2
  /\ TotalAllocatedBytes(scratch_allocator[1]) = I64Mul(I64Shl1(30), 7)

\* the scratch buffers allocated on the device: those not handed out by the
\* operand allocator
LiveScratchBuffers == {b \in memory : b[1] # 0}

\* a trial of the candidate loop is under way
InTrial == tpc[Main] \in {"run_conv", "trial_check"}

\* C21: each candidate trial starts with a fresh ScratchAllocator, total 0
\* and no buffer, while no scratch buffer of an earlier trial is allocated;
\* between trials there is no scratch allocator and no scratch buffer; and
\* whenever a scratch allocator exists every live scratch buffer is owned by
\* it and was allocated in the trial under way, so at most one trial's
\* scratch buffers are live.
C21_ScratchIsPerTrial ==
  /\ [](/\ InTrial => scratch_allocator # <<>> /\ Len(trials) = next_alg - 1
        /\ tpc[Main] = "loop" => scratch_allocator = <<>>
        /\ scratch_allocator = <<>> => LiveScratchBuffers = {}
        /\ scratch_allocator # <<>> =>
             /\ LiveScratchBuffers = OwnedBuffers(scratch_allocator[1])
             /\ \A b \in LiveScratchBuffers : b[1] = next_alg
             /\ Cardinality(LiveScratchBuffers) =
                  Len(scratch_allocator[1].allocated_buffers_))
  /\ [][(tpc[Main] = "loop" /\ tpc'[Main] = "run_conv") =>
          /\ LiveScratchBuffers = {}
          /\ LiveScratchBuffers' = {}
          /\ scratch_allocator'[1].allocated_buffers_ = <<>>
          /\ TotalAllocatedBytes(scratch_allocator'[1]) = I64Zero]_vars

\* the second trial holds a scratch buffer of its own, the only one live,
\* after a first trial that used scratch memory
C21_Witness ==
  /\ tpc[Main] = "trial_check"
  /\ next_alg = 2
  /\ Len(trials) = 1
  /\ trials[1].succeeded
  /\ trials[1].scratch_bytes # I64Zero
  /\ LiveScratchBuffers = {<<2, 1>>}
  /\ OwnedBuffers(scratch_allocator[1]) = {<<2, 1>>}

=============================================================================
